---- MODULE Spec2Model ----
(***************************************************************************)
(* A model of llvm-statepoint-utils: the statepoint frame table            *)
(* (src/src/hash_table.c) and the stack-map decoder (src/unnamed/part_001).*)
(*                                                                         *)
(* Four specifications share the module's variables:                       *)
(*   SpecTable   new_table, insert_key, lookup_return_address, print_table *)
(*   SpecDecode  generate_frame_info on one callsite                       *)
(*   SpecGen     generate_table on a whole stack map                       *)
(*   SpecNext    next_callsite                                             *)
(* Each one holds the variables of the others at their idle values.        *)
(***************************************************************************)
EXTENDS Integers, Sequences, FiniteSets, TLC

VARIABLES
    NDEBUG,        \* the build: TRUE when assert() is compiled out
    pc,            \* position of the modelled caller
    loadFactor,    \* new_table's loadFactor argument, a rational [num, den]
    expectedElms,  \* new_table's expectedElms argument
    table,         \* the statepoint_table_t
    inserted,      \* the frames handed to insert_key so far, in call order
    out,           \* what the last lookup_return_address / print_table produced
    stackmap,      \* the stack-map buffer: its base address and what it holds
    callsite,      \* the callsite_header_t handed to the decoder
    locations,     \* the memory after that header, read as a Location array
    fn,            \* the function_info_t handed to generate_frame_info
    mallocFill,    \* what freshly malloc'ed memory holds
    result         \* what the decoder call returned

tableVars == <<loadFactor, expectedElms, table, inserted, out>>

decodeVars == <<stackmap, callsite, locations, fn, mallocFill, result>>

vars == <<NDEBUG, pc, tableVars, decodeVars>>

(***************************************************************************)
(* Bounds of the model.                                                    *)
(***************************************************************************)
\* largest expectedElms handed to new_table
MaxElms == 3
\* most frames inserted into one table
MaxInserts == 3
\* most tracked-pointer pairs in one callsite
MaxPairs == 3
\* largest deopt count in a callsite's third constant
MaxDeopt == 1
\* most FunctionInfo entries in a stack map
MaxFunctions == 3
\* largest callsiteCount of a function
MaxCount == 2
\* most callsite records in a stack map
MaxRecords == 3
\* largest numLocations handed to next_callsite
MaxLocations == 3
\* largest numLiveouts handed to next_callsite
MaxLiveouts == 3

(***************************************************************************)
(* 64-bit unsigned arithmetic.  A uint64_t is a function from bit position *)
(* 0..63 to {0,1}; products are computed on its eight bytes.               *)
(***************************************************************************)
Pow2(n) == 2 ^ n

ToU64(n) == [i \in 0..63 |-> IF i < 31 THEN (n \div Pow2(i)) % 2 ELSE 0]

ShiftRight(x, n) == [i \in 0..63 |-> IF i + n <= 63 THEN x[i + n] ELSE 0]

ShiftLeft(x, n) == [i \in 0..63 |-> IF i >= n THEN x[i - n] ELSE 0]

Xor(x, y) == [i \in 0..63 |-> (x[i] + y[i]) % 2]

ByteOf(x, k) ==
    x[8 * k] + 2 * x[8 * k + 1] + 4 * x[8 * k + 2] + 8 * x[8 * k + 3]
    + 16 * x[8 * k + 4] + 32 * x[8 * k + 5] + 64 * x[8 * k + 6]
    + 128 * x[8 * k + 7]

\* UINT64_C(2685821657736338717) = 0x2545F4914F6CDD1D, least significant byte first
HashMultiplier == <<29, 221, 108, 79, 145, 244, 69, 37>>

RECURSIVE Column(_, _, _)
\* sum of x's byte i times the multiplier's byte k - i, for i = 0..k down from i
Column(x, k, i) ==
    IF i < 0 THEN 0
    ELSE ByteOf(x, i) * HashMultiplier[k - i + 1] + Column(x, k, i - 1)

RECURSIVE MulBytes(_, _, _)
\* bytes k..7 of x * HashMultiplier modulo 2^64, least significant first
MulBytes(x, k, carry) ==
    IF k > 7 THEN <<>>
    ELSE LET s == Column(x, k, k) + carry
         IN <<s % 256>> \o MulBytes(x, k + 1, s \div 256)

RECURSIVE ModBytes(_, _, _, _)
\* the number whose bytes are bs (least significant first), modulo m
ModBytes(bs, k, r, m) ==
    IF k = 0 THEN r
    ELSE ModBytes(bs, k - 1, (r * 256 + bs[k]) % m, m)

\* one round of xorshift64*; the result's eight bytes, least significant first
hashFn(key) ==
    LET x0 == ToU64(key)
        x1 == Xor(x0, ShiftRight(x0, 12))
        x2 == Xor(x1, ShiftLeft(x1, 25))
        x3 == Xor(x2, ShiftRight(x2, 27))
    IN MulBytes(x3, 0, 0)

\* the return addresses the model hashes
HashedKeys ==
    {4128, 4160, 8208, 8240, 12288}
    \cup {4096 * j + 16 * i : j \in 1..(MaxFunctions + 1), i \in 1..(MaxRecords + 1)}

\* hashFn on HashedKeys, evaluated once
HashOfKey == [k \in HashedKeys |-> hashFn(k)]

computeBucketIndex(t, key) == ModBytes(HashOfKey[key], 8, 0, t.size)

(***************************************************************************)
(* Frames and their layout in a bucket's buffer.  A buffer is a sequence   *)
(* of 4-byte words; byte offset b is word b \div 4 + 1.                     *)
(***************************************************************************)
NULL == <<>>

SizeofFrameInfo == 24
SizeofPointerSlot == 8

size_of_frame(numSlots) == SizeofFrameInfo + numSlots * SizeofPointerSlot

frame_size(frame) == size_of_frame(frame.numSlots)

RECURSIVE SlotWords(_)
SlotWords(slots) ==
    IF slots = <<>> THEN <<>>
    ELSE <<Head(slots).kind, Head(slots).offset>> \o SlotWords(Tail(slots))

\* retAddr (8 bytes), frameSize (8 bytes), numSlots, the slots from byte 20,
\* and the padding that rounds the header up to SizeofFrameInfo
FrameWords(frame) ==
    <<frame.retAddr, 0, frame.frameSize, 0, frame.numSlots>>
    \o SlotWords(frame.slots) \o <<0>>

\* the frame_info_t stored at byte offset off of buffer buf
FrameAt(buf, off) ==
    LET w == off \div 4
        n == buf[w + 5]
    IN [retAddr |-> buf[w + 1], frameSize |-> buf[w + 3], numSlots |-> n,
        slots |-> [j \in 1..n |-> [kind |-> buf[w + 4 + 2 * j],
                                   offset |-> buf[w + 5 + 2 * j]]]]

next_frame(buf, off) == off + frame_size(FrameAt(buf, off))

(***************************************************************************)
(* The frame table.                                                        *)
(***************************************************************************)
\* new_table without the extra bucket
new_table_NoExtraBucket(lf, elms) ==
    LET numBuckets == (elms * lf.den) \div lf.num
    IN [size |-> numBuckets,
        buckets |-> [i \in 0..(numBuckets - 1) |->
                        [numEntries |-> 0, sizeOfEntries |-> 0, entries |-> NULL]]]

new_table(lf, elms) ==
    LET numBuckets == ((elms * lf.den) \div lf.num) + 1
    IN [size |-> numBuckets,
        buckets |-> [i \in 0..(numBuckets - 1) |->
                        [numEntries |-> 0, sizeOfEntries |-> 0, entries |-> NULL]]]

\* insert_key whose collision branch leaves numEntries as it was
insert_key_StaleCount(t, key, value) ==
    LET idx == computeBucketIndex(t, key)
        bucket == t.buckets[idx]
    IN IF bucket.numEntries = 0
       THEN [t EXCEPT !.buckets[idx] =
                [numEntries |-> 1,
                 sizeOfEntries |-> frame_size(value),
                 entries |-> FrameWords(value)]]
       ELSE [t EXCEPT !.buckets[idx] =
                [numEntries |-> bucket.numEntries,
                 sizeOfEntries |-> bucket.sizeOfEntries + frame_size(value),
                 entries |-> bucket.entries \o FrameWords(value)]]

insert_key(t, key, value) ==
    LET idx == computeBucketIndex(t, key)
        bucket == t.buckets[idx]
    IN IF bucket.numEntries = 0
       THEN [t EXCEPT !.buckets[idx] =
                [numEntries |-> 1,
                 sizeOfEntries |-> frame_size(value),
                 entries |-> FrameWords(value)]]
       ELSE LET newSize == bucket.sizeOfEntries + frame_size(value)
                oldEnd == bucket.sizeOfEntries \div 4
                newEntries == SubSeq(bucket.entries, 1, oldEnd) \o FrameWords(value)
            IN [t EXCEPT !.buckets[idx] =
                   [numEntries |-> (bucket.numEntries + 1) % 65536,
                    sizeOfEntries |-> newSize,
                    entries |-> newEntries]]

RECURSIVE ScanBucket(_, _, _, _, _)
\* the loop of lookup_return_address from iteration i, entries at byte off
ScanBucket(bucket, retAddr, i, bucketLimit, off) ==
    IF i >= bucketLimit THEN [found |-> FALSE]
    ELSE IF FrameAt(bucket.entries, off).retAddr = retAddr
         THEN [found |-> TRUE, frame |-> FrameAt(bucket.entries, off)]
         ELSE ScanBucket(bucket, retAddr, i + 1, bucketLimit,
                         next_frame(bucket.entries, off))

lookup_return_address(t, retAddr) ==
    LET idx == computeBucketIndex(t, retAddr)
        bucket == t.buckets[idx]
    IN ScanBucket(bucket, retAddr, 0, bucket.numEntries, 0)

print_frame(frame) ==
    [returnAddress |-> frame.retAddr,
     frameSize |-> frame.frameSize,
     numLivePtrs |-> frame.numSlots,
     ptrSlots |-> [i \in 1..frame.numSlots |->
                    IF frame.slots[i].kind < 0
                    THEN [kind |-> "base ptr",
                          frameOffset |-> frame.slots[i].offset]
                    ELSE [kind |-> "ptr derived from slot",
                          slot |-> frame.slots[i].kind,
                          frameOffset |-> frame.slots[i].offset]]]

RECURSIVE PrintEntries(_, _, _, _)
\* the inner loop of print_table from frame i, entry at byte off
PrintEntries(buf, i, numEntries, off) ==
    IF i >= numEntries THEN <<>>
    ELSE <<print_frame(FrameAt(buf, off))>>
         \o PrintEntries(buf, i + 1, numEntries, next_frame(buf, off))

\* one record per bucket, as print_table writes them
print_table(t) ==
    [i \in 0..(t.size - 1) |->
        LET numEntries == t.buckets[i].numEntries
            sizeOfEntries == t.buckets[i].numEntries
        IN [bucket |-> i,
            numEntries |-> numEntries,
            memoryAllocated |-> sizeOfEntries,
            frames |-> PrintEntries(t.buckets[i].entries, 0, numEntries, 0)]]

(***************************************************************************)
(* The stack-map decoder.  A Location is [kind, offset]; `locations` is    *)
(* the memory that follows a callsite header read as a Location array      *)
(* (index 0 first), of which the first numLocations entries belong to the  *)
(* callsite.                                                               *)
(***************************************************************************)
RECURSIVE Flatten(_)
\* the concatenation of a sequence of sequences
Flatten(ss) == IF ss = <<>> THEN <<>> ELSE Head(ss) \o Flatten(Tail(ss))

Loc(kind, offset) == [kind |-> kind, offset |-> offset]

isBasePointer(first, second) ==
    first.kind = second.kind /\ first.offset = second.offset

isIndirect(p) == p.kind = "Indirect"

\* locs[idx] in C: the entry idx places after the callsite header
LocationAt(locs, idx) == locs[idx + 1]

\* the first loop of generate_frame_info, one iteration per call.
\* st: loc (index of `locations`), numBasePtrs, currentSlot, slots, reads
\* (indices of the Location entries read), writes (slot indices written,
\* in order), status.
RECURSIVE BasePass(_, _, _, _)
BasePass(locs, numSlots, i, st) ==
    IF i >= numSlots \/ st.status # "running" THEN st
    ELSE
      LET base == LocationAt(locs, st.loc)
          derived == LocationAt(locs, st.loc + 1)
          rd == IF isIndirect(base) THEN {st.loc, st.loc + 1} ELSE {st.loc}
      IN IF ~(isIndirect(base) /\ isIndirect(derived))
         THEN [st EXCEPT !.reads = @ \cup rd, !.status = "exited"]
         ELSE IF ~isBasePointer(base, derived)
         THEN BasePass(locs, numSlots, i + 1,
                       [st EXCEPT !.reads = @ \cup rd, !.loc = @ + 2])
         ELSE BasePass(locs, numSlots, i + 1,
                       [st EXCEPT !.reads = @ \cup rd,
                                  !.slots[st.currentSlot + 1] =
                                      [kind |-> -1, offset |-> base.offset],
                                  !.writes = Append(@, st.currentSlot),
                                  !.numBasePtrs = @ + 1,
                                  !.currentSlot = @ + 1,
                                  !.loc = @ + 2])

RECURSIVE FindBase(_, _, _, _)
\* the search loop for baseIdx from index k; -1 when not found
FindBase(processedBase, numBasePtrs, offset, k) ==
    IF k >= numBasePtrs THEN -1
    ELSE IF processedBase[k + 1].offset = offset THEN k
    ELSE FindBase(processedBase, numBasePtrs, offset, k + 1)

\* a store through currentSlot: inside the frame it sets the slot, past the
\* frame's numSlots slots it lands outside the allocation
StoreSlot(slots, idx, slot) ==
    IF idx < Len(slots) THEN [slots EXCEPT ![idx + 1] = slot] ELSE slots

\* the second loop of generate_frame_info; it goes on from the value the
\* first loop left in `locations`
RECURSIVE DerivedPass(_, _, _, _)
DerivedPass(locs, numSlots, i, st) ==
    IF i >= numSlots \/ st.status # "running" THEN st
    ELSE
      LET base == LocationAt(locs, st.loc)
          derived == LocationAt(locs, st.loc + 1)
          rd == {st.loc, st.loc + 1}
          baseIdx == FindBase(st.slots, st.numBasePtrs, base.offset, 0)
      IN IF isBasePointer(base, derived)
         THEN DerivedPass(locs, numSlots, i + 1,
                          [st EXCEPT !.reads = @ \cup rd, !.loc = @ + 2])
         ELSE IF baseIdx < 0
         THEN [st EXCEPT !.reads = @ \cup rd, !.status = "exited"]
         ELSE DerivedPass(locs, numSlots, i + 1,
                          [st EXCEPT !.reads = @ \cup rd,
                                     !.slots = StoreSlot(@, st.currentSlot,
                                         [kind |-> baseIdx,
                                          offset |-> derived.offset]),
                                     !.writes = Append(@, st.currentSlot),
                                     !.currentSlot = @ + 1,
                                     !.loc = @ + 2])

\* generate_frame_info(callsite, fn), with locs the memory after the header.
\* ndebug: assert() compiled out;
\* fill: what malloc's memory holds before the slots are stored.
\* Result: status "returned" with the frame, "aborted" (a failed assert) or
\* "exited" (exit(EXIT_FAILURE)), with the Location indices read and the
\* slot indices written.
generate_frame_info(cs, locs, f, ndebug, fill) ==
    LET retAddr == f.address + cs.codeOffset
        frameSize == f.stackSize
        first == LocationAt(locs, 0)
        second == LocationAt(locs, 1)
        third == LocationAt(locs, 2)
        numDeopt == third.offset
        numLocations == (cs.numLocations - 3 - numDeopt) % 65536
        numSlots == numLocations \div 2
        readsHead == IF ndebug THEN {2} ELSE {0, 1, 2}
        start == [loc |-> 3 + numDeopt, numBasePtrs |-> 0, currentSlot |-> 0,
                  slots |-> [j \in 1..numSlots |-> fill],
                  reads |-> readsHead, writes |-> <<>>, status |-> "running"]
        afterBases == BasePass(locs, numSlots, 0, start)
        afterDerived == DerivedPass(locs, numSlots, 0, afterBases)
        failed(reads) == [status |-> "aborted", reads |-> reads, writes |-> <<>>]
    IN IF ~ndebug /\ first.kind # "Constant" THEN failed({0})
       ELSE IF ~ndebug /\ second.kind # "Constant" THEN failed({0, 1})
       ELSE IF ~ndebug /\ third.kind # "Constant" THEN failed({0, 1, 2})
       ELSE IF ~ndebug /\ numDeopt < 0 THEN failed(readsHead)
       ELSE IF ~ndebug /\ (numLocations \div 2) % 2 # 0 THEN failed(readsHead)
       ELSE IF afterDerived.status # "running"
       THEN [status |-> "exited", reads |-> afterDerived.reads,
             writes |-> afterDerived.writes]
       ELSE [status |-> "returned",
             frame |-> [retAddr |-> retAddr, frameSize |-> frameSize,
                        numSlots |-> numSlots, slots |-> afterDerived.slots],
             reads |-> afterDerived.reads,
             writes |-> afterDerived.writes]

(***************************************************************************)
(* The stack-map buffer.  Record sizes in bytes follow the layout of the   *)
(* stack-map format; an address is a number of bytes.                      *)
(***************************************************************************)
SizeofStackMapHeader == 16
SizeofFunctionInfo == 24
SizeofConstant == 8
SizeofCallsiteHeader == 8
SizeofLocation == 8
SizeofLiveoutHeader == 4
SizeofLiveout == 4

\* next_callsite that masks the low bits without adding 7 first
next_callsite_RoundDown(addr, numLocations, numLiveouts) ==
    LET end == addr + SizeofCallsiteHeader + numLocations * SizeofLocation
               + SizeofLiveoutHeader + numLiveouts * SizeofLiveout
    IN end - (end % 8)

\* next_callsite on the header at address addr, which holds numLocations
\* and is followed by a liveout header holding numLiveouts
next_callsite(addr, numLocations, numLiveouts) ==
    LET locs == addr + SizeofCallsiteHeader + numLocations * SizeofLocation
        liveouts == locs + SizeofLiveoutHeader + numLiveouts * SizeofLiveout
        ptr_val == liveouts + 7
    IN ptr_val - (ptr_val % 8)

\* where the emitter put the first callsite record of stack map sm
FirstCallsite(sm) ==
    sm.base + SizeofStackMapHeader
    + Len(sm.functions) * SizeofFunctionInfo
    + sm.numConstants * SizeofConstant

RECURSIVE RecordAddr(_, _)
\* where the emitter put record i (from 1): each record ends with padding
\* up to the next multiple of 8 bytes from the start of the buffer
RecordAddr(sm, i) ==
    IF i = 1 THEN FirstCallsite(sm)
    ELSE LET prev == sm.records[i - 1]
             end == RecordAddr(sm, i - 1) - sm.base + SizeofCallsiteHeader
                    + Len(prev.locations) * SizeofLocation
                    + SizeofLiveoutHeader + prev.numLiveouts * SizeofLiveout
         IN sm.base + end + ((8 - (end % 8)) % 8)

\* the record whose header lies at address addr
RecordAt(sm, addr) ==
    sm.records[CHOOSE i \in 1..Len(sm.records) : RecordAddr(sm, i) = addr]

\* the memory after a record's header as a Location array: the record's own
\* locations, then what the bytes after them read as
MemoryAfter(sm, rec) ==
    rec.locations \o Flatten([j \in 1..Len(rec.locations) |-> sm.slack])

\* the loop of generate_table from callsite number n (from 0).
\* st: currentFn (index into functions, from 0), visited, callsite (an
\* address), table, frames (the frames inserted, in order), status.
RECURSIVE DecodeRecords(_, _, _, _, _)
DecodeRecords(sm, ndebug, fill, n, st) ==
    IF n >= sm.numRecords \/ st.status # "running" THEN st
    ELSE
      LET advance == st.visited >= sm.functions[st.currentFn + 1].callsiteCount
          currentFn == IF advance THEN st.currentFn + 1 ELSE st.currentFn
          visited == IF advance THEN 0 ELSE st.visited
          rec == RecordAt(sm, st.callsite)
          header == [codeOffset |-> rec.codeOffset,
                     numLocations |-> Len(rec.locations)]
          info == generate_frame_info(header, MemoryAfter(sm, rec),
                                      sm.functions[currentFn + 1], ndebug, fill)
      IN IF info.status # "returned"
         THEN [st EXCEPT !.status = info.status]
         ELSE DecodeRecords(sm, ndebug, fill, n + 1,
                [currentFn |-> currentFn,
                 visited |-> visited + 1,
                 callsite |-> next_callsite(st.callsite, Len(rec.locations),
                                            rec.numLiveouts),
                 table |-> insert_key(st.table, info.frame.retAddr, info.frame),
                 frames |-> Append(st.frames, info.frame),
                 status |-> "running"])

\* generate_table(map, load_factor)
generate_table(sm, load_factor, ndebug, fill) ==
    LET numCallsites == sm.numRecords
        start == [currentFn |-> 0, visited |-> 0,
                  callsite |-> FirstCallsite(sm),
                  table |-> new_table(load_factor, numCallsites),
                  frames |-> <<>>, status |-> "running"]
        end == DecodeRecords(sm, ndebug, fill, 0, start)
    IN IF ~ndebug /\ numCallsites = 0 THEN [status |-> "aborted"]
       ELSE IF end.status # "running" THEN [status |-> end.status]
       ELSE [status |-> "returned", table |-> end.table, frames |-> end.frames]

(***************************************************************************)
(* SpecTable: a table is created, frames with pairwise distinct return     *)
(* addresses are inserted under key = retAddr, and the table is queried    *)
(* and printed.                                                            *)
(***************************************************************************)
LoadFactors ==
    {[num |-> 1, den |-> 2], [num |-> 3, den |-> 4], [num |-> 1, den |-> 1],
     [num |-> 3, den |-> 2], [num |-> 2, den |-> 1]}

BasePtr(off) == [kind |-> -1, offset |-> off]

DerivedPtr(k, off) == [kind |-> k, offset |-> off]

MkFrame(retAddr, frameSize, slots) ==
    [retAddr |-> retAddr, frameSize |-> frameSize,
     numSlots |-> Len(slots), slots |-> slots]

\* frames offered to insert_key; their return addresses are pairwise distinct
TableFrames ==
    {MkFrame(4128, 64, <<BasePtr(-8)>>),
     MkFrame(4160, 64, <<BasePtr(-8), DerivedPtr(0, -4)>>),
     MkFrame(8208, 32, <<>>),
     MkFrame(8240, 32, <<BasePtr(-8), BasePtr(-16), DerivedPtr(1, -12)>>)}

\* return addresses looked up: every inserted one and one never inserted
LookupAddrs == {f.retAddr : f \in TableFrames} \cup {12288}

Idle == [idle |-> TRUE]

IdleOut == [op |-> "none"]

TableIdle ==
    /\ loadFactor = Idle
    /\ expectedElms = 0
    /\ table = Idle
    /\ inserted = <<>>
    /\ out = IdleOut

DecodeIdle ==
    /\ stackmap = Idle
    /\ callsite = Idle
    /\ locations = <<>>
    /\ fn = Idle
    /\ mallocFill = Idle
    /\ result = Idle

InitTable ==
    /\ NDEBUG \in BOOLEAN
    /\ pc = "table"
    /\ loadFactor \in LoadFactors
    /\ expectedElms \in 1..MaxElms
    /\ table = new_table(loadFactor, expectedElms)
    /\ inserted = <<>>
    /\ out = IdleOut
    /\ DecodeIdle

InsertKey ==
    /\ pc = "table"
    /\ Len(inserted) < MaxInserts
    /\ \E f \in TableFrames :
          /\ \A i \in 1..Len(inserted) : inserted[i].retAddr # f.retAddr
          /\ table' = insert_key(table, f.retAddr, f)
          /\ inserted' = Append(inserted, f)
    /\ out' = IdleOut
    /\ UNCHANGED <<NDEBUG, pc, loadFactor, expectedElms, decodeVars>>

LookupReturnAddress ==
    /\ pc = "table"
    /\ \E r \in LookupAddrs :
          out' = [op |-> "lookup", retAddr |-> r,
                  result |-> lookup_return_address(table, r)]
    /\ UNCHANGED <<NDEBUG, pc, loadFactor, expectedElms, table, inserted, decodeVars>>

PrintTable ==
    /\ pc = "table"
    /\ out' = [op |-> "print", buckets |-> print_table(table)]
    /\ UNCHANGED <<NDEBUG, pc, loadFactor, expectedElms, table, inserted, decodeVars>>

NextTable == InsertKey \/ LookupReturnAddress \/ PrintTable

SpecTable == InitTable /\ [][NextTable]_vars

(***************************************************************************)
(* SpecDecode: generate_frame_info is called once on a callsite drawn from *)
(* the sets below.                                                         *)
(***************************************************************************)
Constant(n) == Loc("Constant", n)

Indirect(off) == Loc("Indirect", off)

\* sequences over S of length at most n
SeqsUpTo(S, n) == UNION {[1..k -> S] : k \in 0..n}

\* the three leading constants and the d deopt locations they announce
Prefix(d) ==
    <<Constant(0), Constant(0), Constant(d)>>
    \o [j \in 1..d |-> Loc("Register", 0)]

Prefixes ==
    {Prefix(d) : d \in 0..MaxDeopt}
    \cup {<<Loc("Register", 0), Constant(0), Constant(0)>>}

\* (base, derived) records: two bases, a derivation of the second base, and
\* a pointer left in a register
PointerPairs ==
    {<<Indirect(-8), Indirect(-8)>>, <<Indirect(-16), Indirect(-16)>>,
     <<Indirect(-16), Indirect(-12)>>, <<Loc("Register", 0), Indirect(-8)>>}

\* a location without its partner
OddLocations == {<<>>, <<Indirect(-24)>>}

\* what the memory after a callsite's locations (the liveout header, the
\* padding, the next callsite) can read as, a pair of Locations at a time
SlackPairs ==
    {<<Loc("Other", 0), Loc("Other", 0)>>, <<Indirect(-16), Indirect(-12)>>}

Functions ==
    {[address |-> 4096, stackSize |-> 64, callsiteCount |-> 1],
     [address |-> 8192, stackSize |-> 32, callsiteCount |-> 1]}

GarbageSlots == {[kind |-> 0, offset |-> 0], [kind |-> 7, offset |-> 0]}

\* the callsite's own locations: prefix, pairs, and possibly one more
OwnLocations(prefix, pairs, odd) == prefix \o Flatten(pairs) \o odd

InitDecode ==
    /\ NDEBUG \in BOOLEAN
    /\ pc = "call"
    /\ TableIdle
    /\ stackmap = Idle
    /\ fn \in Functions
    /\ mallocFill \in GarbageSlots
    /\ result = Idle
    /\ \E prefix \in Prefixes, pairs \in SeqsUpTo(PointerPairs, MaxPairs),
          odd \in OddLocations :
          \E slack \in [1..Len(pairs) -> SlackPairs] :
             /\ callsite = [codeOffset |-> 32,
                            numLocations |-> Len(OwnLocations(prefix, pairs, odd))]
             /\ locations = OwnLocations(prefix, pairs, odd) \o Flatten(slack)

GenerateFrameInfo ==
    /\ pc = "call"
    /\ result' = generate_frame_info(callsite, locations, fn, NDEBUG, mallocFill)
    /\ pc' = "done"
    /\ UNCHANGED <<NDEBUG, tableVars, stackmap, callsite, locations, fn, mallocFill>>

NextDecode == GenerateFrameInfo

SpecDecode == InitDecode /\ [][NextDecode]_vars

(***************************************************************************)
(* SpecGen: generate_table is called once on a stack map whose functions'  *)
(* callsiteCounts sum to numRecords and whose buffer is 8-byte aligned.    *)
(***************************************************************************)
RECURSIVE Sum(_)
Sum(cs) == IF cs = <<>> THEN 0 ELSE Head(cs) + Sum(Tail(cs))

\* function j (from 1) of a stack map with the callsiteCounts cs
FunctionInfos(cs) ==
    [j \in 1..Len(cs) |->
        [address |-> 4096 * j, stackSize |-> 16 * j, callsiteCount |-> cs[j]]]

\* the locations of a record: no tracked pointer, a skipped deopt location,
\* or one base pointer
RecordLocations ==
    {Prefix(0), Prefix(1), Prefix(0) \o <<Indirect(-8), Indirect(-8)>>}

\* the address of the stack-map buffer, a multiple of 8
BaseAddress == 8 * 8192

InitGen ==
    /\ NDEBUG \in BOOLEAN
    /\ pc = "call"
    /\ TableIdle
    /\ callsite = Idle
    /\ locations = <<>>
    /\ fn = Idle
    /\ mallocFill \in GarbageSlots
    /\ result = Idle
    /\ \E cs \in SeqsUpTo(0..MaxCount, MaxFunctions) :
          /\ Len(cs) >= 1
          /\ Sum(cs) <= MaxRecords
          /\ \E ls \in [1..Sum(cs) -> RecordLocations],
                nl \in 0..1, slack \in SlackPairs :
                stackmap = [base |-> BaseAddress,
                            functions |-> FunctionInfos(cs),
                            numConstants |-> 1,
                            numRecords |-> Sum(cs),
                            records |-> [i \in 1..Sum(cs) |->
                                            [codeOffset |-> 16 * i,
                                             locations |-> ls[i],
                                             numLiveouts |-> nl]],
                            slack |-> slack]

GenerateTable ==
    /\ pc = "call"
    /\ result' = generate_table(stackmap, [num |-> 1, den |-> 1], NDEBUG, mallocFill)
    /\ pc' = "done"
    /\ UNCHANGED <<NDEBUG, tableVars, stackmap, callsite, locations, fn, mallocFill>>

NextGen == GenerateTable

SpecGen == InitGen /\ [][NextGen]_vars

(***************************************************************************)
(* SpecNext: next_callsite is called once on a callsite at offset          *)
(* callsite.offset of a buffer at address stackmap.base.                   *)
(***************************************************************************)
\* buffer addresses: an 8-byte aligned one and the seven after it
BaseAddresses == {BaseAddress + k : k \in 0..7}

CallsiteOffsets == {40, 48, 60}

InitNext ==
    /\ NDEBUG \in BOOLEAN
    /\ pc = "call"
    /\ TableIdle
    /\ locations = <<>>
    /\ fn = Idle
    /\ mallocFill = Idle
    /\ result = Idle
    /\ \E b \in BaseAddresses : stackmap = [base |-> b]
    /\ \E o \in CallsiteOffsets, nloc \in 0..MaxLocations, nlive \in 0..MaxLiveouts :
          callsite = [offset |-> o, numLocations |-> nloc, numLiveouts |-> nlive]

NextCallsite ==
    /\ pc = "call"
    /\ result' = next_callsite(stackmap.base + callsite.offset,
                               callsite.numLocations, callsite.numLiveouts)
    /\ pc' = "done"
    /\ UNCHANGED <<NDEBUG, tableVars, stackmap, callsite, locations, fn, mallocFill>>

NextNext == NextCallsite

SpecNext == InitNext /\ [][NextNext]_vars

(***************************************************************************)
(* Properties of the frame table (SpecTable).                              *)
(***************************************************************************)
\* the reference map: the frame inserted with return address r, if any
Reference(r) ==
    IF \E i \in 1..Len(inserted) : inserted[i].retAddr = r
    THEN [found |-> TRUE,
          frame |-> inserted[CHOOSE i \in 1..Len(inserted) : inserted[i].retAddr = r]]
    ELSE [found |-> FALSE]

\* C1: after any sequence of insert_key calls with key = frame.retAddr and
\* pairwise distinct keys, lookup_return_address agrees with the reference
\* map for every address: the inserted frame field for field, or not found.
C1_LookupAgreesWithReference ==
    /\ \A r \in LookupAddrs : lookup_return_address(table, r) = Reference(r)
    /\ out.op = "lookup" => out.result = Reference(out.retAddr)

\* C1 witness: a lookup has returned a frame that was inserted into a bucket
\* already holding another frame.
C1_Witness ==
    /\ out.op = "lookup"
    /\ out.result.found
    /\ \E i, j \in 1..Len(inserted) :
          /\ i < j
          /\ inserted[j].retAddr = out.retAddr
          /\ computeBucketIndex(table, inserted[i].retAddr)
                = computeBucketIndex(table, inserted[j].retAddr)
          /\ out.result.frame = inserted[j]

AllBucketsEmpty ==
    /\ DOMAIN table.buckets = 0..(table.size - 1)
    /\ \A i \in DOMAIN table.buckets :
          table.buckets[i] = [numEntries |-> 0, sizeOfEntries |-> 0, entries |-> NULL]

\* C7 as stated: new_table(alpha, E) has exactly ceil(E / alpha) + 1 buckets,
\* all of them empty.
C7_CeilPlusOneBuckets ==
    /\ (table.size - 2) * loadFactor.num < expectedElms * loadFactor.den
    /\ expectedElms * loadFactor.den <= (table.size - 1) * loadFactor.num
    /\ inserted = <<>> => AllBucketsEmpty

\* C7 amended: new_table(alpha, E) has exactly floor(E / alpha) + 1 buckets
\* (the quotient is truncated, not rounded up), all of them empty.
C7_FloorPlusOneBuckets ==
    /\ (table.size - 1) * loadFactor.num <= expectedElms * loadFactor.den
    /\ expectedElms * loadFactor.den < table.size * loadFactor.num
    /\ inserted = <<>> => AllBucketsEmpty

\* C7 witness: a freshly built table whose E / alpha is not an integer.
C7_Witness ==
    /\ pc = "table"
    /\ inserted = <<>>
    /\ (expectedElms * loadFactor.den) % loadFactor.num # 0
    /\ table.size >= 2
    /\ AllBucketsEmpty

\* C8: print_table reports, for each bucket i, its index, its numEntries and
\* its total byte size sizeOfEntries.
C8_PrintReportsByteSize ==
    out.op = "print" =>
        \A i \in 0..(table.size - 1) :
            /\ out.buckets[i].bucket = i
            /\ out.buckets[i].numEntries = table.buckets[i].numEntries
            /\ out.buckets[i].memoryAllocated = table.buckets[i].sizeOfEntries

(***************************************************************************)
(* Properties of generate_frame_info (SpecDecode).                         *)
(***************************************************************************)
\* the number of locations left after the three constants and the deopts
Remaining == callsite.numLocations - 3 - locations[3].offset

\* the callsite's own tracked-pointer pairs, in input order
TrackedPairs ==
    [j \in 1..(Remaining \div 2) |->
        <<locations[3 + locations[3].offset + 2 * j - 1],
          locations[3 + locations[3].offset + 2 * j]>>]

IsBasePair(pr) == pr[1] = pr[2]

RECURSIVE SelectPairs(_, _)
\* the pairs of prs that are (wantBase) or are not base pairs, in order
SelectPairs(prs, wantBase) ==
    IF prs = <<>> THEN <<>>
    ELSE IF IsBasePair(Head(prs)) = wantBase
         THEN <<Head(prs)>> \o SelectPairs(Tail(prs), wantBase)
         ELSE SelectPairs(Tail(prs), wantBase)

BasePairs == SelectPairs(TrackedPairs, TRUE)

DerivedPairs == SelectPairs(TrackedPairs, FALSE)

\* the smallest index (from 0) of a base pair with the given offset
FirstBaseWith(off) ==
    CHOOSE k \in 0..(Len(BasePairs) - 1) :
        /\ BasePairs[k + 1][1].offset = off
        /\ \A m \in 0..(k - 1) : BasePairs[m + 1][1].offset # off

\* the slots the decoding algorithm prescribes for the tracked pairs
ExpectedSlots ==
    [j \in 1..Len(BasePairs) |-> [kind |-> -1, offset |-> BasePairs[j][1].offset]]
    \o [j \in 1..Len(DerivedPairs) |->
          [kind |-> FirstBaseWith(DerivedPairs[j][1].offset),
           offset |-> DerivedPairs[j][2].offset]]

\* three leading constants with numDeopt >= 0, then the deopt locations, then
\* exactly 2p Indirect locations
StatepointShaped ==
    /\ \A k \in 1..3 : locations[k].kind = "Constant"
    /\ locations[3].offset >= 0
    /\ Remaining >= 0
    /\ Remaining % 2 = 0
    /\ \A j \in 1..Len(TrackedPairs) :
          isIndirect(TrackedPairs[j][1]) /\ isIndirect(TrackedPairs[j][2])

\* ... and every derived pair's base is among the base pairs
WellFormedCallsite ==
    /\ StatepointShaped
    /\ \A j \in 1..Len(DerivedPairs) :
          \E k \in 1..Len(BasePairs) :
              BasePairs[k][1].offset = DerivedPairs[j][1].offset

\* C2: for a well-formed callsite that mixes bases and derivations, the frame
\* holds the base slots {-1, base.offset} in input order, then one slot
\* {k, derived.offset} per derivation in input order, k the smallest index
\* of a base slot with the derivation's base offset.
C2_BasesThenDerivations ==
    (pc = "done" /\ WellFormedCallsite
        /\ BasePairs # <<>> /\ DerivedPairs # <<>>) =>
        /\ result.status = "returned"
        /\ result.frame.slots = ExpectedSlots

\* C3: every frame returned by generate_frame_info has B base slots
\* (kind = -1) first and then only slots with 0 <= kind < B.  Stated for
\* the frames returned for well-formed callsites, which the claim covers.
C3_BaseBeforeDerived ==
    (pc = "done" /\ result.status = "returned" /\ WellFormedCallsite) =>
        \E B \in 0..result.frame.numSlots :
            /\ \A i \in 1..B : result.frame.slots[i].kind = -1
            /\ \A i \in (B + 1)..result.frame.numSlots :
                  /\ 0 <= result.frame.slots[i].kind
                  /\ result.frame.slots[i].kind < B

\* C4: a callsite of three constants, numDeopt skipped locations and 2p
\* Indirect locations (every derivation's base present) is decoded without
\* aborting, into a frame with retAddr = fn.address + codeOffset,
\* frameSize = fn.stackSize and numSlots = p.
C4_DecodesStatepointCallsite ==
    (pc = "done" /\ WellFormedCallsite) =>
        /\ result.status = "returned"
        /\ result.frame.retAddr = fn.address + callsite.codeOffset
        /\ result.frame.frameSize = fn.stackSize
        /\ result.frame.numSlots = Len(TrackedPairs)

\* C5: when the number of locations left after the three constants and the
\* deopt locations is odd, the decoder aborts and returns no frame.
C5_OddCountAborts ==
    (pc = "done"
        /\ \A k \in 1..3 : locations[k].kind = "Constant"
        /\ Remaining % 2 = 1) =>
        result.status # "returned"

\* how often slot index i occurs in the sequence of writes
TimesWritten(writes, i) == Cardinality({k \in 1..Len(writes) : writes[k] = i})

\* C9: generate_frame_info reads only Location entries 0..numLocations-1 of
\* the callsite, writes each of the frame's slots exactly once and writes no
\* slot at index >= numSlots.
C9_ReadsAndWritesInBounds ==
    pc = "done" =>
        /\ result.reads \subseteq 0..(callsite.numLocations - 1)
        /\ result.status = "returned" =>
              /\ \A i \in 0..(result.frame.numSlots - 1) :
                    TimesWritten(result.writes, i) = 1
              /\ \A k \in 1..Len(result.writes) :
                    result.writes[k] < result.frame.numSlots

(***************************************************************************)
(* Properties of generate_table (SpecGen).                                 *)
(***************************************************************************)
RECURSIVE Owner(_, _, _)
\* the function (from 1, searching from j) that owns callsite record i
\* (from 0): the first whose callsiteCounts, summed from the start, exceed i
Owner(fs, i, j) ==
    IF i < fs[j].callsiteCount THEN j
    ELSE Owner(fs, i - fs[j].callsiteCount, j + 1)

\* C6: generate_table decodes the i-th callsite record against the function
\* that owns it, so its frame has that function's address + codeOffset as
\* retAddr and that function's stackSize as frameSize.
C6_CallsiteAttributedToOwner ==
    (pc = "done" /\ result.status = "returned") =>
        \A i \in 1..stackmap.numRecords :
            LET owner == stackmap.functions[Owner(stackmap.functions, i - 1, 1)]
            IN /\ result.frames[i].retAddr
                     = owner.address + stackmap.records[i].codeOffset
               /\ result.frames[i].frameSize = owner.stackSize

(***************************************************************************)
(* Properties of next_callsite (SpecNext).                                 *)
(***************************************************************************)
\* the offset in the buffer where the callsite's liveout records end
EndOffset ==
    callsite.offset + SizeofCallsiteHeader
    + callsite.numLocations * SizeofLocation
    + SizeofLiveoutHeader + callsite.numLiveouts * SizeofLiveout

\* n is the smallest multiple of 8 that is at least m
RoundsUpTo8(n, m) == n % 8 = 0 /\ m <= n /\ n < m + 8

\* C10 as stated: for every base address of the buffer, next_callsite
\* returns the position whose offset in the buffer is the end of the
\* liveouts rounded up to a multiple of 8.
C10_RoundsOffset ==
    pc = "done" => RoundsUpTo8(result - stackmap.base, EndOffset)

\* C10 amended: next_callsite rounds the address, not the offset: it returns
\* the smallest multiple of 8 at or above base + end of the liveouts, which
\* is the rounded-up offset when the buffer's base is a multiple of 8.
C10_RoundsAddress ==
    pc = "done" =>
        /\ RoundsUpTo8(result, stackmap.base + EndOffset)
        /\ stackmap.base % 8 = 0 =>
              RoundsUpTo8(result - stackmap.base, EndOffset)

\* C10 witness: next_callsite has returned for a callsite without liveouts
\* whose end is not a multiple of 8, in a buffer at a multiple of 8.
C10_Witness ==
    /\ pc = "done"
    /\ stackmap.base % 8 = 0
    /\ callsite.numLiveouts = 0
    /\ EndOffset % 8 # 0
    /\ result = stackmap.base + EndOffset + 4

====
